---------------------------- MODULE Spec2Model ----------------------------
(***************************************************************************)
(* Model of menu/menu_driver.c: the menu-driver indirection layer.         *)
(*                                                                         *)
(* The state is the file's static storage (the bound driver, the pending   *)
(* flags, the scroll-index table, the selection pointer), the two values    *)
(* the navigation requests read from their collaborators (the entry list's *)
(* size and the wraparound setting), and a record of the last request:     *)
(* its name, argument, return value, the driver hooks it invoked and the   *)
(* selection and pending flags it started from.                            *)
(*                                                                         *)
(* size_t and unsigned arithmetic wraps modulo SizeMod, a scaled-down      *)
(* stand-in for 2^32 / 2^64.                                               *)
(***************************************************************************)
EXTENDS Integers, Sequences, FiniteSets, TLC

(* ------------------------------ bounds -------------------------------- *)

\* size_t / unsigned values are 0 .. SizeMod-1
SizeMod == 8
\* largest entry-list size menu_entries_get_size() reports
MaxN == 3
\* largest position the list-population collaborator appends to the table
MaxIdx == 2
\* largest table size reached under Spec (SpecCap runs to the real capacity)
MaxTable == 2
\* largest in-range scroll speed; SizeMod-1 is added as the overflowing one
MaxStep == 2
\* where the count of consecutive undisturbed menu_driver_iterate calls stops
MaxQuiet == 2

(* ------------------------- program constants -------------------------- *)

SCROLL_INDEX_SIZE == 2 * (26 + 2) + 1

\* a NULL pointer, for pointers to drivers and for pointer arguments
NULL == 0
\* a NULL `data` argument of menu_driver_ctl, where the pointee is a number
NULLARG == -1

\* The static driver table: a driver with every hook, menu_ctx_null (no
\* hooks), and the terminating NULL.
menu_ctx_drivers == <<1, 2, NULL>>

\* Whether driver d sets hook h in its capability table.
HasHook(d, h) == d = 1

VARIABLES
    menu_driver_ctx,
    menu_driver_data,
    menu_userdata,
    menu_driver_data_own,
    menu_driver_pending_quick_menu,
    menu_driver_pending_quit,
    menu_driver_pending_shutdown,
    scroll_index_list,
    scroll_index_size,
    scroll_acceleration,
    menu_driver_selection_ptr,
    menu_list_size,
    wraparound_enable,
    lastOp,
    lastArg,
    prevPtr,
    prevPending,
    prevData,
    prevUserdata,
    ret,
    hooks,
    hookSeen,
    quietIterates,
    fault,
    halted

vars == <<menu_driver_ctx, menu_driver_data, menu_userdata,
          menu_driver_data_own, prevData, prevUserdata,
          menu_driver_pending_quick_menu,
          menu_driver_pending_quit, menu_driver_pending_shutdown,
          scroll_index_list, scroll_index_size, scroll_acceleration,
          menu_driver_selection_ptr, menu_list_size, wraparound_enable,
          lastOp, lastArg, prevPtr, prevPending, ret, hooks, hookSeen, quietIterates,
          fault,
          halted>>

lifeVars == <<menu_driver_data, menu_userdata, menu_driver_data_own>>
driverVars == <<menu_driver_ctx, lifeVars>>
pendingVars == <<menu_driver_pending_quick_menu, menu_driver_pending_quit,
                 menu_driver_pending_shutdown>>
tableVars == <<scroll_index_list, scroll_index_size>>
envVars == <<menu_list_size, wraparound_enable>>

(* --------------------------- arithmetic ------------------------------- *)

\* size_t addition and subtraction
Add(a, b) == (a + b) % SizeMod
Sub(a, b) == (a - b + SizeMod) % SizeMod

(* ------------------- the running request's state ---------------------- *)

\* A request runs on a record: the selection pointer so far, the hooks
\* invoked so far, the selection each hook called through CallHook found
\* when it was invoked, the undefined behaviour met so far ("none",
\* "null_deref", "oob_read", "oob_write"), and whether execution stopped
\* there.
Start ==
    [ptr |-> menu_driver_selection_ptr, hooks |-> <<>>, seen |-> <<>>,
     ub |-> "none", halt |-> FALSE]

\* menu_navigation_set_selection
menu_navigation_set_selection(s, val) ==
    IF s.halt THEN s ELSE [s EXCEPT !.ptr = val]

\* menu_driver_ctx->h: `if (menu_driver_ctx->h) menu_driver_ctx->h(...)`.
\* With menu_driver_ctx NULL the read is undefined: either the platform traps
\* (trap: execution stops there) or the read yields no hook and execution
\* goes on.  `name` is what the hook log records.
CallHook(s, h, name, trap) ==
    IF s.halt THEN s
    ELSE IF menu_driver_ctx = NULL
         THEN [s EXCEPT !.ub = "null_deref", !.halt = trap]
    ELSE IF HasHook(menu_driver_ctx, h)
         THEN [s EXCEPT !.hooks = Append(@, name),
                        !.seen = Append(@, s.ptr)]
    ELSE s

\* menu_driver_navigation_set(true)
menu_driver_navigation_set(s, trap) ==
    CallHook(s, "navigation_set", "navigation_set", trap)

\* The three pending flags: quick-menu push, quit, shutdown
Pending ==
    <<menu_driver_pending_quick_menu, menu_driver_pending_quit,
      menu_driver_pending_shutdown>>

\* The end of a request: the statics and the record of the request.
\* quietIterates counts the menu_driver_iterate calls made in a row, with no
\* other request between them, whose callees set no pending flag.
Commit(op, arg, s, r) ==
    /\ menu_driver_selection_ptr' = s.ptr
    /\ lastOp' = op
    /\ lastArg' = arg
    /\ prevPtr' = menu_driver_selection_ptr
    /\ prevPending' = Pending
    /\ prevData' = menu_driver_data
    /\ prevUserdata' = menu_userdata
    /\ hooks' = s.hooks
    /\ hookSeen' = s.seen
    /\ quietIterates' =
           IF op = "iterate" /\ arg = 0
           THEN IF quietIterates < MaxQuiet THEN quietIterates + 1
                ELSE MaxQuiet
           ELSE 0
    /\ fault' = s.ub
    /\ halted' = s.halt
    /\ ret' = IF s.halt THEN "none" ELSE r

(* ----------------------- navigation requests -------------------------- *)

\* The bool the navigation_clear hook receives: the call passes the pointer
\* pending_push itself, converted to bool.
ClearHookName(pending_push) ==
    IF pending_push # NULLARG THEN "navigation_clear(true)"
    ELSE "navigation_clear(false)"

\* CtlClear with the reset of the selection made to depend on pending_push
CtlClear_ResetOnlyWhenPending(s, pending_push, trap) ==
    LET s1 == IF pending_push # NULLARG
              THEN menu_navigation_set_selection(s, 0) ELSE s
        s2 == menu_driver_navigation_set(s1, trap)
    IN  IF pending_push # NULLARG
        THEN CallHook(s2, "navigation_clear", ClearHookName(pending_push), trap)
        ELSE s2

\* case MENU_NAVIGATION_CTL_CLEAR, from running state s.  pending_push is
\* NULLARG, or the pointed-to bool as 0 / 1.
CtlClear(s, pending_push, trap) ==
    LET s1 == menu_navigation_set_selection(s, 0)
        s2 == menu_driver_navigation_set(s1, trap)
    IN  IF pending_push # NULLARG
        THEN CallHook(s2, "navigation_clear", ClearHookName(pending_push), trap)
        ELSE s2

\* CtlSetLast with the list size itself as the new selection
CtlSetLast_OffByOne(s, trap) ==
    LET s1 == menu_navigation_set_selection(s, menu_list_size)
    IN  CallHook(s1, "navigation_set_last", "navigation_set_last", trap)

\* case MENU_NAVIGATION_CTL_SET_LAST, from running state s
CtlSetLast(s, trap) ==
    LET new_selection == Sub(menu_list_size, 1)
        s1 == menu_navigation_set_selection(s, new_selection)
    IN  CallHook(s1, "navigation_set_last", "navigation_set_last", trap)

\* IncrementBlocked with > for >=
IncrementBlocked_Strict ==
    /\ menu_driver_selection_ptr > Sub(menu_list_size, 1)
    /\ ~wraparound_enable

\* The boundary test that opens MENU_NAVIGATION_CTL_INCREMENT
IncrementBlocked ==
    /\ menu_driver_selection_ptr >= Sub(menu_list_size, 1)
    /\ ~wraparound_enable

\* The body of MENU_NAVIGATION_CTL_INCREMENT after the boundary test
CtlIncrement(s, scroll_speed, trap) ==
    LET idx == Add(s.ptr, scroll_speed)
        s1 == IF idx < menu_list_size
              THEN menu_driver_navigation_set(
                       menu_navigation_set_selection(s, idx), trap)
              ELSE IF wraparound_enable THEN CtlClear(s, 0, trap)
              ELSE IF menu_list_size > 0 THEN CtlSetLast(s, trap)
              ELSE s
    IN  CallHook(s1, "navigation_increment", "navigation_increment", trap)

\* The boundary test that opens MENU_NAVIGATION_CTL_DECREMENT
DecrementBlocked ==
    /\ menu_driver_selection_ptr = 0
    /\ ~wraparound_enable

\* DecrementIdx with the wraparound test inverted
DecrementIdx_Inverted(ptr, scroll_speed) ==
    IF ptr >= scroll_speed THEN Sub(ptr, scroll_speed)
    ELSE IF wraparound_enable THEN 0
    ELSE Sub(menu_list_size, 1)

\* The index MENU_NAVIGATION_CTL_DECREMENT moves to
DecrementIdx(ptr, scroll_speed) ==
    IF ptr >= scroll_speed THEN Sub(ptr, scroll_speed)
    ELSE IF ~wraparound_enable THEN 0
    ELSE Sub(menu_list_size, 1)

\* CtlDecrement with the navigation_decrement hook called first
CtlDecrement_HookFirst(s, scroll_speed, trap) ==
    LET idx == DecrementIdx(s.ptr, scroll_speed)
        s0 == CallHook(s, "navigation_decrement", "navigation_decrement", trap)
        s1 == menu_navigation_set_selection(s0, idx)
    IN  menu_driver_navigation_set(s1, trap)

\* The body of MENU_NAVIGATION_CTL_DECREMENT after the boundary test
CtlDecrement(s, scroll_speed, trap) ==
    LET idx == DecrementIdx(s.ptr, scroll_speed)
        s1 == menu_navigation_set_selection(s, idx)
        s2 == menu_driver_navigation_set(s1, trap)
    IN  CallHook(s2, "navigation_decrement", "navigation_decrement", trap)

Clear(pending_push, trap) ==
    /\ ~halted
    /\ Commit("clear", pending_push, CtlClear(Start, pending_push, trap), "true")
    /\ UNCHANGED <<driverVars, pendingVars, tableVars, scroll_acceleration, envVars>>

SetLast(trap) ==
    /\ ~halted
    /\ Commit("set_last", NULLARG, CtlSetLast(Start, trap), "true")
    /\ UNCHANGED <<driverVars, pendingVars, tableVars, scroll_acceleration, envVars>>

\* Increment notifying the driver on the blocked path as well
Increment_BlockedNotifies(scroll_speed, trap) ==
    /\ ~halted
    /\ IF IncrementBlocked
       THEN Commit("increment", scroll_speed,
                   CallHook(Start, "navigation_increment",
                            "navigation_increment", trap), "false")
       ELSE Commit("increment", scroll_speed,
                   CtlIncrement(Start, scroll_speed, trap), "true")
    /\ UNCHANGED <<driverVars, pendingVars, tableVars, scroll_acceleration, envVars>>

Increment(scroll_speed, trap) ==
    /\ ~halted
    /\ IF IncrementBlocked
       THEN Commit("increment", scroll_speed, Start, "false")
       ELSE Commit("increment", scroll_speed,
                   CtlIncrement(Start, scroll_speed, trap), "true")
    /\ UNCHANGED <<driverVars, pendingVars, tableVars, scroll_acceleration, envVars>>

Decrement(scroll_speed, trap) ==
    /\ ~halted
    /\ IF DecrementBlocked
       THEN Commit("decrement", scroll_speed, Start, "false")
       ELSE Commit("decrement", scroll_speed,
                   CtlDecrement(Start, scroll_speed, trap), "true")
    /\ UNCHANGED <<driverVars, pendingVars, tableVars, scroll_acceleration, envVars>>

(* ------------------------ alphabet navigation ------------------------- *)

\* scroll_index_list[i]: a slot of the table, or, past the array's end, the
\* undefined value oob that the out-of-bounds read yields.
Slot(i, oob) ==
    IF i < SCROLL_INDEX_SIZE THEN scroll_index_list[i] ELSE oob

\* while (i < scroll_index_size - 1 && scroll_index_list[i + 1] <= ptr) i++
RECURSIVE AscendScan(_, _)
AscendScan(i, ptr) ==
    IF i < scroll_index_size - 1 /\ scroll_index_list[i + 1] <= ptr
    THEN AscendScan(i + 1, ptr)
    ELSE i

\* AscendTarget taking the slot the scan stopped at, not the one after it
AscendTarget_StaysInBucket(ptr, oob) ==
    IF ptr = scroll_index_list[scroll_index_size - 1]
    THEN Sub(menu_list_size, 1)
    ELSE LET i == AscendScan(0, ptr)
             v == Slot(i, oob)
         IN  IF v >= menu_list_size THEN Sub(menu_list_size, 1) ELSE v

\* The selection MENU_NAVIGATION_CTL_ASCEND_ALPHABET moves to (the table
\* is not empty).
AscendTarget(ptr, oob) ==
    IF ptr = scroll_index_list[scroll_index_size - 1]
    THEN Sub(menu_list_size, 1)
    ELSE LET i == AscendScan(0, ptr)
             v == Slot(i + 1, oob)
         IN  IF v >= menu_list_size THEN Sub(menu_list_size, 1) ELSE v

\* Whether that request reads past the end of the array
AscendReadsOob(ptr) ==
    /\ scroll_index_size > 0
    /\ ptr # scroll_index_list[scroll_index_size - 1]
    /\ AscendScan(0, ptr) + 1 >= SCROLL_INDEX_SIZE

\* The body of MENU_NAVIGATION_CTL_ASCEND_ALPHABET with a non-empty table
CtlAscendAlphabet(s, oob, trap) ==
    LET s1 == [s EXCEPT !.ptr = AscendTarget(s.ptr, oob),
                        !.ub = IF AscendReadsOob(s.ptr) THEN "oob_read" ELSE @]
    IN  CallHook(s1, "navigation_ascend_alphabet",
                 "navigation_ascend_alphabet", trap)

\* DescendTarget without the backward scan
DescendTarget_NoScan(ptr) ==
    IF scroll_index_size - 1 > 0
    THEN scroll_index_list[scroll_index_size - 2] ELSE ptr

\* while (i && scroll_index_list[i - 1] >= ptr) i--
RECURSIVE DescendScan(_, _)
DescendScan(i, ptr) ==
    IF i # 0 /\ scroll_index_list[i - 1] >= ptr
    THEN DescendScan(i - 1, ptr)
    ELSE i

\* The selection MENU_NAVIGATION_CTL_DESCEND_ALPHABET moves to (the table
\* is not empty and the selection is not 0).
DescendTarget(ptr) ==
    LET i == DescendScan(scroll_index_size - 1, ptr)
    IN  IF i > 0 THEN scroll_index_list[i - 1] ELSE ptr

\* The body of MENU_NAVIGATION_CTL_DESCEND_ALPHABET past its early returns
CtlDescendAlphabet(s, trap) ==
    LET s1 == [s EXCEPT !.ptr = DescendTarget(s.ptr)]
    IN  CallHook(s1, "navigation_descend_alphabet",
                 "navigation_descend_alphabet", trap)

AscendAlphabet(oob, trap) ==
    /\ ~halted
    /\ IF scroll_index_size = 0
       THEN Commit("ascend_alphabet", NULLARG, Start, "false")
       ELSE Commit("ascend_alphabet", NULLARG,
                   CtlAscendAlphabet(Start, oob, trap), "true")
    /\ UNCHANGED <<driverVars, pendingVars, tableVars, scroll_acceleration, envVars>>

DescendAlphabet(trap) ==
    /\ ~halted
    /\ IF scroll_index_size = 0 \/ menu_driver_selection_ptr = 0
       THEN Commit("descend_alphabet", NULLARG, Start, "false")
       ELSE Commit("descend_alphabet", NULLARG,
                   CtlDescendAlphabet(Start, trap), "true")
    /\ UNCHANGED <<driverVars, pendingVars, tableVars, scroll_acceleration, envVars>>

(* ------------------------ scroll-index table -------------------------- *)

\* ClearScrollIndices without the store into scroll_index_size
ClearScrollIndices_KeepsSize ==
    /\ ~halted
    /\ scroll_index_size' = scroll_index_size
    /\ Commit("clear_scroll_indices", NULLARG, Start, "true")
    /\ UNCHANGED <<driverVars, pendingVars, scroll_index_list,
                   scroll_acceleration, envVars>>

\* case MENU_NAVIGATION_CTL_CLEAR_SCROLL_INDICES
ClearScrollIndices ==
    /\ ~halted
    /\ scroll_index_size' = 0
    /\ Commit("clear_scroll_indices", NULLARG, Start, "true")
    /\ UNCHANGED <<driverVars, pendingVars, scroll_index_list,
                   scroll_acceleration, envVars>>

\* What the store scroll_index_list[scroll_index_size++] = sel leaves when
\* scroll_index_size is already SCROLL_INDEX_SIZE: the store lands past the
\* array, on one of the statics declared after it or on none of them
\* (victim), and the counter is incremented.  Execution is not followed
\* past it.
OobStore(sel, victim) ==
    /\ scroll_index_list' = scroll_index_list
    /\ scroll_index_size' =
           IF victim = "scroll_index_size" THEN sel ELSE scroll_index_size + 1
    /\ scroll_acceleration' =
           IF victim = "scroll_acceleration" THEN sel ELSE scroll_acceleration
    /\ menu_driver_selection_ptr' =
           IF victim = "menu_driver_selection_ptr" THEN sel
           ELSE menu_driver_selection_ptr
    /\ lastOp' = "add_scroll_index"
    /\ lastArg' = sel
    /\ prevPtr' = menu_driver_selection_ptr
    /\ prevPending' = Pending
    /\ prevData' = menu_driver_data
    /\ prevUserdata' = menu_userdata
    /\ hooks' = <<>>
    /\ hookSeen' = <<>>
    /\ quietIterates' = 0
    /\ fault' = "oob_write"
    /\ halted' = TRUE
    /\ ret' = "true"

\* case MENU_NAVIGATION_CTL_ADD_SCROLL_INDEX; sel is NULLARG or *sel
AddScrollIndex(sel, victim) ==
    /\ ~halted
    /\ IF sel = NULLARG
       THEN /\ Commit("add_scroll_index", sel, Start, "false")
            /\ UNCHANGED <<tableVars, scroll_acceleration>>
       ELSE IF scroll_index_size < SCROLL_INDEX_SIZE
       THEN /\ scroll_index_list' =
                   [scroll_index_list EXCEPT ![scroll_index_size] = sel]
            /\ scroll_index_size' = scroll_index_size + 1
            /\ Commit("add_scroll_index", sel, Start, "true")
            /\ UNCHANGED scroll_acceleration
       ELSE OobStore(sel, victim)
    /\ UNCHANGED <<driverVars, pendingVars, envVars>>

\* case MENU_NAVIGATION_CTL_GET_SCROLL_ACCEL; sel is NULLARG or a valid pointer
GetScrollAccel(sel) ==
    /\ ~halted
    /\ Commit("get_scroll_accel", sel, Start,
              IF sel = NULLARG THEN "false" ELSE "true")
    /\ UNCHANGED <<driverVars, pendingVars, tableVars, scroll_acceleration, envVars>>

\* case MENU_NAVIGATION_CTL_SET_SCROLL_ACCEL; sel is NULLARG or *sel
SetScrollAccel(sel) ==
    /\ ~halted
    /\ scroll_acceleration' = IF sel = NULLARG THEN scroll_acceleration ELSE sel
    /\ Commit("set_scroll_accel", sel, Start,
              IF sel = NULLARG THEN "false" ELSE "true")
    /\ UNCHANGED <<driverVars, pendingVars, tableVars, envVars>>

(* --------------------------- driver binding --------------------------- *)

\* menu_driver_find_handle reading the entry after the one asked for
menu_driver_find_handle_NextEntry(idx) == menu_ctx_drivers[idx + 2]

\* menu_driver_find_handle
menu_driver_find_handle(idx) == menu_ctx_drivers[idx + 1]

\* case RARCH_MENU_CTL_FIND_DRIVER; i is the index driver_ctl's name lookup
\* returns, -1 when the configured name resolves to no driver
FindDriver(i) ==
    /\ ~halted
    /\ menu_driver_ctx' =
           IF i >= 0 THEN menu_driver_find_handle(i)
           ELSE menu_driver_find_handle(0)
    /\ Commit("find_driver", i, Start,
              IF i < 0 /\ menu_driver_find_handle(0) = NULL
              THEN "false" ELSE "true")
    /\ UNCHANGED <<lifeVars, pendingVars, tableVars, scroll_acceleration,
                   envVars>>

\* case RARCH_MENU_CTL_DESTROY.  Of the statics it resets, the pending
\* flags, the own-driver flag, the driver pointer and the userdata pointer
\* are part of this model's state; the userdata is not freed here.
Destroy ==
    /\ ~halted
    /\ menu_driver_pending_quick_menu' = FALSE
    /\ menu_driver_pending_quit' = FALSE
    /\ menu_driver_pending_shutdown' = FALSE
    /\ menu_driver_data_own' = FALSE
    /\ menu_driver_ctx' = NULL
    /\ menu_userdata' = NULL
    /\ Commit("destroy", NULLARG, Start, "true")
    /\ UNCHANGED <<menu_driver_data, tableVars, scroll_acceleration, envVars>>

(* ------------------------- dispatch facade ---------------------------- *)

\* menu_driver_list_clear; list is NULLARG or a valid list
ListClear(list, trap) ==
    /\ ~halted
    /\ IF list = NULLARG
       THEN Commit("list_clear", list, Start, "false")
       ELSE Commit("list_clear", list,
                   CallHook(Start, "list_clear", "list_clear", trap), "true")
    /\ UNCHANGED <<driverVars, pendingVars, tableVars, scroll_acceleration,
                   envVars>>

\* A caller of the public menu_driver_navigation_set (void)
NavigationSet(trap) ==
    /\ ~halted
    /\ Commit("navigation_set", NULLARG,
              menu_driver_navigation_set(Start, trap), "none")
    /\ UNCHANGED <<driverVars, pendingVars, tableVars, scroll_acceleration,
                   envVars>>

\* menu_driver_populate_entries (void)
PopulateEntries(trap) ==
    /\ ~halted
    /\ Commit("populate_entries", NULLARG,
              CallHook(Start, "populate_entries", "populate_entries", trap),
              "none")
    /\ UNCHANGED <<driverVars, pendingVars, tableVars, scroll_acceleration,
                   envVars>>

\* What a request returns that is true only when the driver's hook h is
\* set and returned 0
HookReturnedZero(h, hook_ret) ==
    IF menu_driver_ctx # NULL /\ HasHook(menu_driver_ctx, h) /\ hook_ret = 0
    THEN "true" ELSE "false"

\* menu_driver_push_list; hook_ret is what the driver's list_push returns
PushList(hook_ret, trap) ==
    /\ ~halted
    /\ Commit("push_list", hook_ret,
              CallHook(Start, "list_push", "list_push", trap),
              HookReturnedZero("list_push", hook_ret))
    /\ UNCHANGED <<driverVars, pendingVars, tableVars, scroll_acceleration,
                   envVars>>

\* case RARCH_MENU_CTL_ENVIRONMENT; hook_ret is what environ_cb returns
Environment(hook_ret, trap) ==
    /\ ~halted
    /\ Commit("environment", hook_ret,
              CallHook(Start, "environ_cb", "environ_cb", trap),
              HookReturnedZero("environ_cb", hook_ret))
    /\ UNCHANGED <<driverVars, pendingVars, tableVars, scroll_acceleration,
                   envVars>>

(* ----------------------------- lifecycle ------------------------------ *)

\* The one non-NULL value of menu_driver_data and of menu_userdata: what the
\* driver's init returns and what it stores through its userdata argument
HANDLE == 1

\* `if (menu_driver_ctx && menu_driver_ctx->h) menu_driver_ctx->h(...)`
GuardedHook(h) ==
    IF menu_driver_ctx # NULL /\ HasHook(menu_driver_ctx, h)
    THEN <<h>> ELSE <<>>

\* What menu_driver_init_internal calls after the driver's init returned:
\* outcome is "ok", "no_handle" (init returned NULL), "menu_init_failed" or
\* "lists_init_failed".
InitInternalCalls(outcome) ==
    LET lists == IF HasHook(menu_driver_ctx, "lists_init")
                 THEN <<"lists_init">> ELSE <<>>
    IN  CASE outcome = "no_handle" -> <<"init", "retroarch_fail">>
          [] outcome = "menu_init_failed" ->
                 <<"init", "menu_init", "retroarch_fail">>
          [] outcome = "lists_init_failed" ->
                 <<"init", "menu_init">> \o lists \o <<"retroarch_fail">>
          [] OTHER -> <<"init", "menu_init">> \o lists

\* menu_driver_init with menu_driver_init_internal.  stores tells whether
\* the driver's init stored a userdata through its first argument.  With
\* menu_driver_ctx NULL the call through it is undefined: the platform
\* traps, or the call yields no handle.
menu_driver_init(outcome, stores, trap) ==
    /\ ~halted
    /\ IF menu_driver_data # NULL
       THEN /\ Commit("init", NULLARG,
                      [Start EXCEPT !.hooks = GuardedHook("context_reset")],
                      "false")
            /\ UNCHANGED <<menu_driver_data, menu_userdata>>
       ELSE IF menu_driver_ctx = NULL
       THEN /\ Commit("init", NULLARG,
                      [Start EXCEPT !.ub = "null_deref", !.halt = trap,
                                    !.hooks = IF trap THEN <<>>
                                              ELSE <<"retroarch_fail">>],
                      "false")
            /\ UNCHANGED <<menu_driver_data, menu_userdata>>
       ELSE /\ menu_driver_data' =
                   IF outcome = "no_handle" THEN NULL ELSE HANDLE
            /\ menu_userdata' = IF stores THEN HANDLE ELSE menu_userdata
            /\ Commit("init", NULLARG,
                      [Start EXCEPT !.hooks =
                          InitInternalCalls(outcome) \o
                          (IF outcome = "ok" THEN GuardedHook("context_reset")
                           ELSE <<>>)],
                      "false")
    /\ UNCHANGED <<menu_driver_ctx, menu_driver_data_own, pendingVars,
                   tableVars, scroll_acceleration, envVars>>

\* case RARCH_MENU_CTL_SET_OWN_DRIVER
SetOwnDriver ==
    /\ ~halted
    /\ menu_driver_data_own' = TRUE
    /\ Commit("set_own_driver", NULLARG, Start, "true")
    /\ UNCHANGED <<menu_driver_ctx, menu_driver_data, menu_userdata,
                   pendingVars, tableVars, scroll_acceleration, envVars>>

\* case RARCH_MENU_CTL_UNSET_OWN_DRIVER
UnsetOwnDriver ==
    /\ ~halted
    /\ menu_driver_data_own' = FALSE
    /\ Commit("unset_own_driver", NULLARG, Start, "true")
    /\ UNCHANGED <<menu_driver_ctx, menu_driver_data, menu_userdata,
                   pendingVars, tableVars, scroll_acceleration, envVars>>

\* DeinitResets without the early return on the own-driver flag
DeinitResets_IgnoresOwn == menu_driver_data # NULL

\* Whether RARCH_MENU_CTL_DEINIT reaches the block that resets the
\* navigation statics: not past `if (menu_driver_data_own) return true;`,
\* and only inside `if (menu_driver_data)`
DeinitResets == ~menu_driver_data_own /\ menu_driver_data # NULL

\* What that block releases, in order
DeinitFrees ==
    GuardedHook("free")
    \o (IF menu_userdata # NULL THEN <<"free(menu_userdata)">> ELSE <<>>)
    \o <<"free(menu_driver_data)">>

\* Deinit storing false into the three pending flags as well
Deinit_ClearsPending ==
    /\ ~halted
    /\ IF DeinitResets
       THEN /\ scroll_acceleration' = 0
            /\ scroll_index_size' = 0
            /\ scroll_index_list' = [i \in 0 .. (SCROLL_INDEX_SIZE - 1) |-> 0]
            /\ menu_userdata' = NULL
            /\ Commit("deinit", NULLARG,
                      [Start EXCEPT !.ptr = 0,
                                    !.hooks = GuardedHook("context_destroy")
                                              \o DeinitFrees],
                      "true")
       ELSE /\ Commit("deinit", NULLARG,
                      [Start EXCEPT !.hooks = GuardedHook("context_destroy")],
                      "true")
            /\ UNCHANGED <<tableVars, scroll_acceleration, menu_userdata>>
    /\ menu_driver_data' =
           IF menu_driver_data_own THEN menu_driver_data ELSE NULL
    /\ menu_driver_pending_quick_menu' = FALSE
    /\ menu_driver_pending_quit' = FALSE
    /\ menu_driver_pending_shutdown' = FALSE
    /\ UNCHANGED <<menu_driver_ctx, menu_driver_data_own, envVars>>

\* case RARCH_MENU_CTL_DEINIT
Deinit ==
    /\ ~halted
    /\ IF DeinitResets
       THEN /\ scroll_acceleration' = 0
            /\ scroll_index_size' = 0
            /\ scroll_index_list' = [i \in 0 .. (SCROLL_INDEX_SIZE - 1) |-> 0]
            /\ menu_userdata' = NULL
            /\ Commit("deinit", NULLARG,
                      [Start EXCEPT !.ptr = 0,
                                    !.hooks = GuardedHook("context_destroy")
                                              \o DeinitFrees],
                      "true")
       ELSE /\ Commit("deinit", NULLARG,
                      [Start EXCEPT !.hooks = GuardedHook("context_destroy")],
                      "true")
            /\ UNCHANGED <<tableVars, scroll_acceleration, menu_userdata>>
    /\ menu_driver_data' =
           IF menu_driver_data_own THEN menu_driver_data ELSE NULL
    /\ UNCHANGED <<menu_driver_ctx, menu_driver_data_own, pendingVars,
                   envVars>>

(* --------------------------- pending flags ---------------------------- *)

\* case RARCH_MENU_CTL_SET_PENDING_QUICK_MENU
SetPendingQuickMenu ==
    /\ ~halted
    /\ menu_driver_pending_quick_menu' = TRUE
    /\ Commit("set_pending_quick_menu", NULLARG, Start, "true")
    /\ UNCHANGED <<driverVars, menu_driver_pending_quit,
                   menu_driver_pending_shutdown, tableVars,
                   scroll_acceleration, envVars>>

\* case RARCH_MENU_CTL_SET_PENDING_QUIT
SetPendingQuit ==
    /\ ~halted
    /\ menu_driver_pending_quit' = TRUE
    /\ Commit("set_pending_quit", NULLARG, Start, "true")
    /\ UNCHANGED <<driverVars, menu_driver_pending_quick_menu,
                   menu_driver_pending_shutdown, tableVars,
                   scroll_acceleration, envVars>>

\* case RARCH_MENU_CTL_SET_PENDING_SHUTDOWN
SetPendingShutdown ==
    /\ ~halted
    /\ menu_driver_pending_shutdown' = TRUE
    /\ Commit("set_pending_shutdown", NULLARG, Start, "true")
    /\ UNCHANGED <<driverVars, menu_driver_pending_quick_menu,
                   menu_driver_pending_quit, tableVars,
                   scroll_acceleration, envVars>>

\* What the quick-menu branch of menu_driver_iterate calls, in order
QuickMenuPush ==
    <<"menu_entries_flush_stack", "menu_display_set_msg_force",
      "generic_action_ok_displaylist_push">>

\* IterateBranch with the shutdown test ahead of the quit test
IterateBranch_ShutdownFirst ==
    IF menu_driver_pending_quick_menu THEN "quick_menu"
    ELSE IF menu_driver_pending_shutdown THEN "shutdown"
    ELSE IF menu_driver_pending_quit THEN "quit"
    ELSE IF menu_driver_ctx = NULL \/ ~HasHook(menu_driver_ctx, "iterate")
         THEN "no_driver"
    ELSE "driver"

\* Which branch menu_driver_iterate takes: its if-chain, top to bottom
IterateBranch ==
    IF menu_driver_pending_quick_menu THEN "quick_menu"
    ELSE IF menu_driver_pending_quit THEN "quit"
    ELSE IF menu_driver_pending_shutdown THEN "shutdown"
    ELSE IF menu_driver_ctx = NULL \/ ~HasHook(menu_driver_ctx, "iterate")
         THEN "no_driver"
    ELSE "driver"

\* What the taken branch calls, in order
IterateEffects(b) ==
    CASE b = "quick_menu" -> QuickMenuPush
      [] b = "shutdown" -> <<"command_event(CMD_EVENT_QUIT)">>
      [] b = "driver" -> <<"iterate">>
      [] OTHER -> <<>>

\* The pending flags a callee of menu_driver_iterate sets while it runs (the
\* push handlers, command_event, the driver's iterate callback), as a sum
\* of FlagQuickMenu, FlagQuit and FlagShutdown.
FlagQuickMenu == 1
FlagQuit == 2
FlagShutdown == 4
CalleeSets(sets, flag) == (sets \div flag) % 2 = 1

\* ServedFlag with the flag cleared after the callee returns
ServedFlag_ClearedAfterCall(again) == again /\ FALSE

\* The flag a branch serves, at the branch's end: set to false, then the
\* callee runs and may set it again.
ServedFlag(again) == FALSE \/ again

\* menu_driver_pending_quit as the test inside the quick-menu branch reads
\* it: after the push handlers ran
QuitAfterPush(sets) == menu_driver_pending_quit \/ CalleeSets(sets, FlagQuit)

\* IterateReturn without the quit test inside the quick-menu branch
IterateReturn_PushIgnoresQuit(b, cmd_ok, drv_ret, sets) ==
    CASE b = "quick_menu" -> "true"
      [] b = "quit" -> "false"
      [] b = "shutdown" -> IF cmd_ok THEN "true" ELSE "false"
      [] b = "no_driver" -> "false"
      [] OTHER -> IF drv_ret = -1 THEN "false" ELSE "true"

\* What the taken branch returns.  cmd_ok is what
\* command_event(CMD_EVENT_QUIT) returns and drv_ret what the driver's
\* iterate callback returns.
IterateReturn(b, cmd_ok, drv_ret, sets) ==
    CASE b = "quick_menu" ->
             IF QuitAfterPush(sets) THEN "false" ELSE "true"
      [] b = "quit" -> "false"
      [] b = "shutdown" -> IF cmd_ok THEN "true" ELSE "false"
      [] b = "no_driver" -> "false"
      [] OTHER -> IF drv_ret = -1 THEN "false" ELSE "true"

\* Iterate with the quick-menu branch leaving the quit flag as it is
Iterate_PushKeepsQuit(cmd_ok, drv_ret, sets) ==
    LET b == IterateBranch
        calls == b \in {"quick_menu", "shutdown", "driver"}
        set(flag) == calls /\ CalleeSets(sets, flag)
    IN
    /\ ~halted
    /\ menu_driver_pending_quick_menu' =
           IF b = "quick_menu" THEN ServedFlag(set(FlagQuickMenu))
           ELSE menu_driver_pending_quick_menu \/ set(FlagQuickMenu)
    /\ menu_driver_pending_quit' =
           IF b = "quit" THEN FALSE
           ELSE menu_driver_pending_quit \/ set(FlagQuit)
    /\ menu_driver_pending_shutdown' =
           IF b = "shutdown" THEN ServedFlag(set(FlagShutdown))
           ELSE menu_driver_pending_shutdown \/ set(FlagShutdown)
    /\ Commit("iterate", sets,
              [Start EXCEPT !.hooks = IterateEffects(b)],
              IterateReturn(b, cmd_ok, drv_ret, sets))
    /\ UNCHANGED <<driverVars, tableVars, scroll_acceleration, envVars>>

\* menu_driver_iterate.  sets is what the taken branch's callees do to the
\* pending flags; the quit and no-driver branches call nothing.
Iterate(cmd_ok, drv_ret, sets) ==
    LET b == IterateBranch
        calls == b \in {"quick_menu", "shutdown", "driver"}
        set(flag) == calls /\ CalleeSets(sets, flag)
    IN
    /\ ~halted
    /\ menu_driver_pending_quick_menu' =
           IF b = "quick_menu" THEN ServedFlag(set(FlagQuickMenu))
           ELSE menu_driver_pending_quick_menu \/ set(FlagQuickMenu)
    /\ menu_driver_pending_quit' =
           IF b = "quick_menu" \/ b = "quit" THEN FALSE
           ELSE menu_driver_pending_quit \/ set(FlagQuit)
    /\ menu_driver_pending_shutdown' =
           IF b = "shutdown" THEN ServedFlag(set(FlagShutdown))
           ELSE menu_driver_pending_shutdown \/ set(FlagShutdown)
    /\ Commit("iterate", sets,
              [Start EXCEPT !.hooks = IterateEffects(b)],
              IterateReturn(b, cmd_ok, drv_ret, sets))
    /\ UNCHANGED <<driverVars, tableVars, scroll_acceleration, envVars>>

(* --------------------------- collaborators ---------------------------- *)

\* The entry list is repopulated: menu_entries_get_size() now returns n.
Populate(n) ==
    /\ ~halted
    /\ menu_list_size' = n
    /\ Commit("populate", n, Start, "none")
    /\ UNCHANGED <<driverVars, pendingVars, tableVars, scroll_acceleration,
                   wraparound_enable>>

\* settings->bools.menu_navigation_wraparound_enable is set to b.
SetWraparound(b) ==
    /\ ~halted
    /\ wraparound_enable' = b
    /\ Commit("set_wraparound", NULLARG, Start, "none")
    /\ UNCHANGED <<driverVars, pendingVars, tableVars, scroll_acceleration,
                   menu_list_size>>

\* A caller of the public setter menu_navigation_set_selection(val)
SetSelection(val) ==
    /\ ~halted
    /\ Commit("set_selection", val,
              menu_navigation_set_selection(Start, val), "none")
    /\ UNCHANGED <<driverVars, pendingVars, tableVars, scroll_acceleration,
                   envVars>>

(* ------------------------------- inputs ------------------------------- *)

Steps == (0 .. MaxStep) \cup {SizeMod - 1}
Sizes == 0 .. MaxN
Positions == 0 .. MaxIdx
PendingPushArgs == {NULLARG, 0, 1}
AccelArgs == {NULLARG, 0, 1}
DriverIndices == -1 .. (Len(menu_ctx_drivers) - 2)

\* What the callees of menu_driver_iterate can do to the pending flags
FlagSets ==
    IF IterateBranch \in {"quick_menu", "shutdown", "driver"}
    THEN 0 .. (FlagQuickMenu + FlagQuit + FlagShutdown) ELSE {0}

\* How menu_driver_init_internal can end, and whether the driver's init
\* stored a userdata; both matter only when the driver's init is called.
InitOutcomes ==
    IF menu_driver_data # NULL \/ menu_driver_ctx = NULL THEN {"ok"}
    ELSE {"ok", "no_handle", "menu_init_failed"}
         \cup (IF HasHook(menu_driver_ctx, "lists_init")
               THEN {"lists_init_failed"} ELSE {})
InitStores ==
    IF menu_driver_data # NULL \/ menu_driver_ctx = NULL THEN {FALSE}
    ELSE BOOLEAN

\* The outcomes of reading through menu_driver_ctx: only a NULL pointer
\* leaves the choice between a trap and going on.
Traps == IF menu_driver_ctx = NULL THEN BOOLEAN ELSE {FALSE}

\* The values a read of scroll_index_list past its end can yield
OobReads ==
    IF AscendReadsOob(menu_driver_selection_ptr) THEN Positions ELSE {0}

\* The statics the store past the array's end can land on
OobVictims ==
    {"scroll_index_size", "scroll_acceleration", "menu_driver_selection_ptr",
     "none"}

\* The statics as their initializers leave them; the list size and the
\* wraparound setting are whatever the frontend starts with.
Init ==
    /\ menu_driver_ctx = NULL
    /\ menu_driver_data = NULL
    /\ menu_userdata = NULL
    /\ menu_driver_data_own = FALSE
    /\ prevData = NULL
    /\ prevUserdata = NULL
    /\ menu_driver_pending_quick_menu = FALSE
    /\ menu_driver_pending_quit = FALSE
    /\ menu_driver_pending_shutdown = FALSE
    /\ scroll_index_list = [i \in 0 .. (SCROLL_INDEX_SIZE - 1) |-> 0]
    /\ scroll_index_size = 0
    /\ scroll_acceleration = 0
    /\ menu_driver_selection_ptr = 0
    /\ menu_list_size \in Sizes
    /\ wraparound_enable \in BOOLEAN
    /\ lastOp = "init"
    /\ lastArg = NULLARG
    /\ prevPtr = 0
    /\ prevPending = <<FALSE, FALSE, FALSE>>
    /\ ret = "none"
    /\ hooks = <<>>
    /\ hookSeen = <<>>
    /\ quietIterates = 0
    /\ fault = "none"
    /\ halted = FALSE

DoSetSelection == \E val \in Positions : SetSelection(val)
DoClear == \E pp \in PendingPushArgs, trap \in Traps : Clear(pp, trap)
DoSetLast == \E trap \in Traps : SetLast(trap)
DoIncrement == \E sp \in Steps, trap \in Traps : Increment(sp, trap)
DoDecrement == \E sp \in Steps, trap \in Traps : Decrement(sp, trap)
DoAscendAlphabet ==
    \E oob \in OobReads, trap \in Traps : AscendAlphabet(oob, trap)
DoDescendAlphabet == \E trap \in Traps : DescendAlphabet(trap)
DoClearScrollIndices == ClearScrollIndices
DoAddScrollIndex ==
    /\ scroll_index_size < MaxTable
    /\ \E sel \in Positions \cup {NULLARG} : AddScrollIndex(sel, "none")
DoFillScrollIndex ==
    \E sel \in {NULLARG, 1}, victim \in OobVictims : AddScrollIndex(sel, victim)
DoGetScrollAccel == \E sel \in AccelArgs : GetScrollAccel(sel)
DoSetScrollAccel == \E sel \in AccelArgs : SetScrollAccel(sel)
DoFindDriver == \E i \in DriverIndices : FindDriver(i)
DoDestroy == Destroy
DoSetPendingQuickMenu == SetPendingQuickMenu
DoSetPendingQuit == SetPendingQuit
DoSetPendingShutdown == SetPendingShutdown
DoIterate ==
    \E cmd_ok \in BOOLEAN, drv_ret \in {-1, 0}, sets \in FlagSets :
        Iterate(cmd_ok, drv_ret, sets)
DoPopulate == \E n \in Sizes : Populate(n)
DoSetWraparound == \E b \in BOOLEAN : SetWraparound(b)
DoListClear == \E list \in {NULLARG, 1}, trap \in Traps : ListClear(list, trap)
DoNavigationSet == \E trap \in Traps : NavigationSet(trap)
DoPopulateEntries == \E trap \in Traps : PopulateEntries(trap)
DoPushList == \E hook_ret \in {-1, 0}, trap \in Traps : PushList(hook_ret, trap)
DoEnvironment ==
    \E hook_ret \in {-1, 0}, trap \in Traps : Environment(hook_ret, trap)
DoDriverInit ==
    \E outcome \in InitOutcomes, stores \in InitStores, trap \in Traps :
        menu_driver_init(outcome, stores, trap)
DoDeinit == Deinit
DoSetOwnDriver == SetOwnDriver
DoUnsetOwnDriver == UnsetOwnDriver
DoRepopulate == \E n \in Sizes \ {0} : Populate(n)

(* --------------------------- specifications --------------------------- *)

\* The selection cursor: the step and jump requests over a list whose size
\* and wraparound setting change, with and without a driver bound.
Next ==
    \/ DoSetSelection
    \/ DoClear
    \/ DoSetLast
    \/ DoIncrement
    \/ DoDecrement
    \/ DoFindDriver
    \/ DoDestroy
    \/ DoPopulate
    \/ DoSetWraparound
    \/ DoListClear
    \/ DoNavigationSet
    \/ DoPopulateEntries
    \/ DoPushList
    \/ DoEnvironment

Spec == Init /\ [][Next]_vars

\* The alphabet jumps over a table that is cleared and appended to.
NextAlpha ==
    \/ DoSetSelection
    \/ DoAscendAlphabet
    \/ DoDescendAlphabet
    \/ DoClearScrollIndices
    \/ DoAddScrollIndex
    \/ DoFindDriver
    \/ DoDestroy
    \/ DoPopulate

SpecAlpha == Init /\ [][NextAlpha]_vars

\* The table filled to its capacity and beyond, and the scroll acceleration.
NextCap ==
    \/ DoFillScrollIndex
    \/ DoClearScrollIndices
    \/ DoGetScrollAccel
    \/ DoSetScrollAccel

SpecCap == Init /\ [][NextCap]_vars

\* The pending flags and the per-frame step that consumes them.
NextIter ==
    \/ DoSetPendingQuickMenu
    \/ DoSetPendingQuit
    \/ DoSetPendingShutdown
    \/ DoIterate
    \/ DoFindDriver
    \/ DoDestroy
    \/ DoDeinit

SpecIter == Init /\ [][NextIter]_vars

\* The six cursor-moving requests over a list that is never empty and is
\* repopulated to another length between them; the cursor is moved by
\* these requests only.
InitRepop == Init /\ menu_list_size > 0

NextRepop ==
    \/ DoClear
    \/ DoSetLast
    \/ DoIncrement
    \/ DoDecrement
    \/ DoAscendAlphabet
    \/ DoDescendAlphabet
    \/ DoClearScrollIndices
    \/ DoAddScrollIndex
    \/ DoFindDriver
    \/ DoRepopulate

SpecRepop == InitRepop /\ [][NextRepop]_vars

\* Every navigation request that can return false, over a list of a fixed
\* size, with the table and the scroll acceleration away from 0.  The list
\* has one entry or MaxN entries; wraparound is disabled, as an increment or
\* decrement returns false only then.
InitNav == Init /\ menu_list_size \in {1, MaxN} /\ ~wraparound_enable

NextNav ==
    \/ DoSetSelection
    \/ DoIncrement
    \/ DoDecrement
    \/ DoAscendAlphabet
    \/ DoDescendAlphabet
    \/ DoAddScrollIndex
    \/ DoGetScrollAccel
    \/ DoSetScrollAccel
    \/ DoFindDriver

SpecNav == InitNav /\ [][NextNav]_vars

\* The driver's life: bound, initialised, owned or not, deinitialised and
\* destroyed, with the navigation statics away from their reset values.
\* None of these requests reads the list size or the wraparound setting.
InitLife == Init /\ menu_list_size = MaxN /\ wraparound_enable

NextLife ==
    \/ DoDriverInit
    \/ DoDeinit
    \/ DoSetOwnDriver
    \/ DoUnsetOwnDriver
    \/ DoFindDriver
    \/ DoDestroy
    \/ DoSetSelection
    \/ DoAddScrollIndex

SpecLife == InitLife /\ [][NextLife]_vars

(* ------------------------------ properties ----------------------------- *)

\* The first scroll_index_size slots of the table are non-decreasing
TableSorted ==
    \A i \in 0 .. (scroll_index_size - 2) :
        scroll_index_list[i] <= scroll_index_list[i + 1]

\* C1: over a list of size N > 0, an increment or decrement request that
\* starts from a position in [0, N) leaves the position in [0, N), for every
\* wraparound setting and every step; so any sequence of them does.
C1_IncDecStayInRange ==
    (/\ lastOp \in {"increment", "decrement"}
     /\ menu_list_size > 0
     /\ prevPtr < menu_list_size)
    => (0 <= menu_driver_selection_ptr /\ menu_driver_selection_ptr < menu_list_size)

C1_Witness ==
    /\ lastOp \in {"increment", "decrement"}
    /\ menu_list_size = MaxN
    /\ prevPtr < menu_list_size
    /\ lastArg = SizeMod - 1
    /\ ret = "true"
    /\ menu_driver_selection_ptr # prevPtr

\* C2: menu_driver_iterate tests the pending flags in the order quick-menu
\* push, quit, shutdown, driver iteration.  With quit and shutdown pending
\* and no quick-menu push pending, one call clears the quit flag, returns
\* false, leaves the shutdown flag set and calls nothing, the driver's
\* iterate callback included.
C2_IteratePriority ==
    lastOp = "iterate" =>
        /\ prevPending[1] => hooks = QuickMenuPush
        /\ (~prevPending[1] /\ prevPending[2]) =>
               /\ ~menu_driver_pending_quit
               /\ ret = "false"
               /\ menu_driver_pending_shutdown = prevPending[3]
               /\ hooks = <<>>
        /\ (~prevPending[1] /\ ~prevPending[2] /\ prevPending[3]) =>
               /\ lastArg = 0 => ~menu_driver_pending_shutdown
               /\ hooks = <<"command_event(CMD_EVENT_QUIT)">>
        /\ prevPending = <<FALSE, FALSE, FALSE>> =>
               hooks \in {<<>>, <<"iterate">>}

C2_Witness ==
    /\ lastOp = "iterate"
    /\ lastArg = 0
    /\ prevPending = <<FALSE, TRUE, TRUE>>
    /\ Pending = <<FALSE, FALSE, TRUE>>
    /\ menu_driver_ctx = 1
    /\ ret = "false"

\* C3: with no driver bound, an increment(1) request returns false, changes
\* no navigation state and does not dereference the NULL driver pointer.
C3_NoDriverIncrementFails ==
    (lastOp = "increment" /\ lastArg = 1 /\ menu_driver_ctx = NULL)
    => (/\ ret = "false"
        /\ menu_driver_selection_ptr = prevPtr
        /\ fault = "none")

\* C4: with wraparound disabled and N > 0, an increment at position N-1 and
\* a decrement at position 0 return false and leave the position unchanged,
\* for every step.
C4_BlockedAtBoundary ==
    (/\ ~wraparound_enable
     /\ menu_list_size > 0
     /\ \/ lastOp = "increment" /\ prevPtr = menu_list_size - 1
        \/ lastOp = "decrement" /\ prevPtr = 0)
    => (/\ ret = "false"
        /\ menu_driver_selection_ptr = prevPtr
        /\ hooks = <<>>)

C4_Witness ==
    /\ ~wraparound_enable
    /\ menu_list_size = MaxN
    /\ lastOp = "increment"
    /\ lastArg = MaxStep
    /\ prevPtr = menu_list_size - 1
    /\ menu_driver_ctx # NULL
    /\ ret = "false"

\* C5: with wraparound enabled and N > 0, an increment by 1 at position N-1
\* moves to 0 and a decrement by 1 at position 0 moves to N-1 (both to 0
\* when N = 1).
C5_WrapsAround ==
    (wraparound_enable /\ menu_list_size > 0 /\ lastArg = 1)
    => (/\ (lastOp = "increment" /\ prevPtr = menu_list_size - 1)
               => menu_driver_selection_ptr = 0
        /\ (lastOp = "decrement" /\ prevPtr = 0)
               => menu_driver_selection_ptr = menu_list_size - 1)

C5_Witness ==
    /\ wraparound_enable
    /\ menu_list_size = MaxN
    /\ lastArg = 1
    /\ lastOp = "decrement"
    /\ prevPtr = 0
    /\ menu_driver_selection_ptr = MaxN - 1
    /\ hooks = <<"navigation_set", "navigation_decrement">>

\* C6: over a non-empty non-decreasing table and a list of size N > 0, an
\* ascendAlphabet request from a position in [0, N) never decreases the
\* position; from the last table entry it moves to N-1; and from N-1, when
\* the last table entry is at most N-1, it stays at N-1.  (Stated for the
\* requests that run with a driver bound and read no slot past the array.)
C6_AscendMonotone ==
    (/\ lastOp = "ascend_alphabet"
     /\ fault = "none"
     /\ scroll_index_size > 0
     /\ TableSorted
     /\ menu_list_size > 0
     /\ prevPtr < menu_list_size)
    => (/\ menu_driver_selection_ptr >= prevPtr
        /\ prevPtr = scroll_index_list[scroll_index_size - 1]
               => menu_driver_selection_ptr = menu_list_size - 1
        /\ (/\ prevPtr = menu_list_size - 1
            /\ scroll_index_list[scroll_index_size - 1] <= menu_list_size - 1)
               => menu_driver_selection_ptr = menu_list_size - 1)

\* C7: for every table and every starting position, a descendAlphabet
\* request never increases the position, and at position 0 it returns
\* false and leaves the position at 0.
C7_DescendMonotone ==
    lastOp = "descend_alphabet" =>
        /\ menu_driver_selection_ptr <= prevPtr
        /\ prevPtr = 0 => (menu_driver_selection_ptr = 0 /\ ret = "false")

C7_Witness ==
    /\ lastOp = "descend_alphabet"
    /\ scroll_index_size = MaxTable
    /\ ~TableSorted
    /\ menu_driver_ctx # NULL
    /\ ret = "true"
    /\ menu_driver_selection_ptr < prevPtr

\* C8: a MENU_NAVIGATION_CTL_CLEAR request issued with a driver bound
\* leaves the position at 0 and returns true, whatever the position and
\* list size before and whatever its argument, NULL included.
C8_ClearResets ==
    (lastOp = "clear" /\ menu_driver_ctx # NULL)
    => (menu_driver_selection_ptr = 0 /\ ret = "true")

C8_Witness ==
    /\ lastOp = "clear"
    /\ lastArg = NULLARG
    /\ menu_driver_ctx # NULL
    /\ prevPtr > 0
    /\ menu_driver_selection_ptr = 0

\* C9: the table size stays within [0, SCROLL_INDEX_SIZE] and no append
\* stores outside the table: an append at size SCROLL_INDEX_SIZE fails and
\* leaves the size as it is.
C9_TableWithinCapacity ==
    /\ scroll_index_size \in 0 .. SCROLL_INDEX_SIZE
    /\ fault # "oob_write"

\* C10: with the quick-menu push and quit both pending, one
\* menu_driver_iterate call performs the push, clears both flags and
\* returns false; with only the quick-menu push pending it performs the
\* push, clears the flag and returns true.  (The flags a push handler sets
\* itself while it runs, lastArg, stay set.)
C10_PushThenQuit ==
    lastOp = "iterate" =>
        /\ (prevPending[1] /\ prevPending[2]) =>
               /\ hooks = QuickMenuPush
               /\ ~CalleeSets(lastArg, FlagQuickMenu) =>
                      ~menu_driver_pending_quick_menu
               /\ ~menu_driver_pending_quit
               /\ ret = "false"
        /\ prevPending = <<TRUE, FALSE, FALSE>> =>
               /\ hooks = QuickMenuPush
               /\ lastArg = 0 => /\ Pending = <<FALSE, FALSE, FALSE>>
                                 /\ ret = "true"

C10_Witness ==
    /\ lastOp = "iterate"
    /\ lastArg = 0
    /\ prevPending = <<TRUE, TRUE, TRUE>>
    /\ Pending = <<FALSE, FALSE, TRUE>>
    /\ hooks = QuickMenuPush
    /\ ret = "false"

\* C11: menu_driver_iterate clears the flag of the branch it takes before it
\* calls that branch's handler.  When the quick-menu push handlers (or
\* command_event in the shutdown branch) set the same flag again while
\* they run, the flag is set when the call returns, so that a later call
\* takes the branch again, and the call itself ran the handler once.
C11_RetriggerSurvives ==
    lastOp = "iterate" =>
        /\ (prevPending[1] /\ CalleeSets(lastArg, FlagQuickMenu)) =>
               /\ menu_driver_pending_quick_menu
               /\ hooks = QuickMenuPush
        /\ (/\ prevPending = <<FALSE, FALSE, TRUE>>
            /\ CalleeSets(lastArg, FlagShutdown)) =>
               /\ menu_driver_pending_shutdown
               /\ hooks = <<"command_event(CMD_EVENT_QUIT)">>

C11_Witness ==
    /\ lastOp = "iterate"
    /\ prevPending = <<FALSE, FALSE, TRUE>>
    /\ lastArg = FlagShutdown
    /\ Pending = <<FALSE, FALSE, TRUE>>
    /\ hooks = <<"command_event(CMD_EVENT_QUIT)">>

\* The table indices whose entry is above, or below, position p
EntriesAbove(p) ==
    {i \in 0 .. (scroll_index_size - 1) : scroll_index_list[i] > p}
EntriesBelow(p) ==
    {i \in 0 .. (scroll_index_size - 1) : scroll_index_list[i] < p}
Least(S) == CHOOSE i \in S : \A j \in S : i <= j
Greatest(S) == CHOOSE i \in S : \A j \in S : i >= j

\* C12: over a non-empty non-decreasing table and a list of size N > 0, an
\* ascendAlphabet request from a position other than the last table entry
\* reads no slot at an index >= scroll_index_size, and moves the position
\* to the entry at the smallest index of the whole table, index 0
\* included, whose entry is above the position, N-1 when that entry is
\* >= N.  (Stated for the requests that run with a driver bound.)
C12_AscendSmallestAbove ==
    (/\ lastOp = "ascend_alphabet"
     /\ menu_driver_ctx # NULL
     /\ scroll_index_size > 0
     /\ TableSorted
     /\ menu_list_size > 0
     /\ prevPtr # scroll_index_list[scroll_index_size - 1])
    => (/\ AscendScan(0, prevPtr) + 1 < scroll_index_size
        /\ EntriesAbove(prevPtr) # {} =>
               LET v == scroll_index_list[Least(EntriesAbove(prevPtr))]
               IN  menu_driver_selection_ptr =
                       IF v >= menu_list_size THEN menu_list_size - 1 ELSE v)

\* C13: over a non-empty non-decreasing table, a descendAlphabet request
\* from a position > 0 moves the position to the entry at the largest index
\* of the whole table, the last index included, whose entry is below the
\* position, and leaves the position unchanged when there is none.
\* (Stated for the requests that run with a driver bound.)
C13_DescendLargestBelow ==
    (/\ lastOp = "descend_alphabet"
     /\ menu_driver_ctx # NULL
     /\ scroll_index_size > 0
     /\ TableSorted
     /\ prevPtr > 0)
    => menu_driver_selection_ptr =
           IF EntriesBelow(prevPtr) # {}
           THEN scroll_index_list[Greatest(EntriesBelow(prevPtr))]
           ELSE prevPtr

\* The first scroll_index_size slots are strictly increasing and below N
TableStrictBelowN ==
    /\ \A i \in 0 .. (scroll_index_size - 2) :
           scroll_index_list[i] < scroll_index_list[i + 1]
    /\ \A i \in 0 .. (scroll_index_size - 1) :
           scroll_index_list[i] < menu_list_size

\* C14: over a strictly increasing table with all entries below N, an
\* ascendAlphabet request from a position strictly between two adjacent
\* entries, table[k] < p < table[k+1], lands on table[k+1], a strictly
\* greater entry; and a descendAlphabet request from the position so
\* reached, table[k+1], lands on table[k], a strictly smaller entry.
\* (Stated for the requests that run with a driver bound.)
C14_AscendThenDescend ==
    (TableStrictBelowN /\ fault = "none") =>
        \A k \in 0 .. (scroll_index_size - 2) :
            /\ (/\ lastOp = "ascend_alphabet"
                /\ scroll_index_list[k] < prevPtr
                /\ prevPtr < scroll_index_list[k + 1])
               => (/\ menu_driver_selection_ptr = scroll_index_list[k + 1]
                   /\ menu_driver_selection_ptr > prevPtr
                   /\ ret = "true")
            /\ (/\ lastOp = "descend_alphabet"
                /\ prevPtr = scroll_index_list[k + 1])
               => (/\ menu_driver_selection_ptr = scroll_index_list[k]
                   /\ menu_driver_selection_ptr < prevPtr
                   /\ ret = "true")

C14_Witness ==
    /\ TableStrictBelowN
    /\ scroll_index_size = 2
    /\ scroll_index_list[0] + 1 < scroll_index_list[1]
    /\ lastOp = "descend_alphabet"
    /\ fault = "none"
    /\ prevPtr = scroll_index_list[1]
    /\ menu_driver_selection_ptr = scroll_index_list[0]

\* C15: over an empty list (N = 0) an increment or decrement request, for
\* every step and either wraparound setting, returns false, leaves the
\* position unchanged and invokes no driver hook.  (Stated for the
\* requests that run with a driver bound.)
C15_EmptyListNoOp ==
    (/\ lastOp \in {"increment", "decrement"}
     /\ menu_driver_ctx # NULL
     /\ menu_list_size = 0)
    => (/\ ret = "false"
        /\ menu_driver_selection_ptr = prevPtr
        /\ hooks = <<>>)

\* C16: a setLast request leaves the position at N-1 when N > 0 and at 0
\* when N = 0.  (Stated for the requests that run with a driver bound.)
C16_SetLastMax ==
    (lastOp = "set_last" /\ menu_driver_ctx # NULL)
    => menu_driver_selection_ptr =
           IF menu_list_size > 0 THEN menu_list_size - 1 ELSE 0

\* C18: over a list of size N > 0 and from a position in [0, N): an
\* increment whose position + step is >= N leaves the position at 0 with
\* wraparound enabled and, from a position < N-1, at N-1 with wraparound
\* disabled; a decrement whose step exceeds the position leaves it at N-1
\* with wraparound enabled and, from a position > 0, at 0 with wraparound
\* disabled; a step that stays in range adds or subtracts exactly the
\* step.  (Stated for the requests that run with a driver bound.)
C18_BoundaryResolved ==
    (/\ lastOp \in {"increment", "decrement"}
     /\ menu_driver_ctx # NULL
     /\ menu_list_size > 0
     /\ prevPtr < menu_list_size)
    => /\ (lastOp = "increment" /\ prevPtr + lastArg >= menu_list_size) =>
              /\ wraparound_enable => menu_driver_selection_ptr = 0
              /\ (~wraparound_enable /\ prevPtr < menu_list_size - 1) =>
                     menu_driver_selection_ptr = menu_list_size - 1
       /\ (lastOp = "increment" /\ prevPtr + lastArg < menu_list_size) =>
              menu_driver_selection_ptr = prevPtr + lastArg
       /\ (lastOp = "decrement" /\ prevPtr < lastArg) =>
              /\ wraparound_enable =>
                     menu_driver_selection_ptr = menu_list_size - 1
              /\ (~wraparound_enable /\ prevPtr > 0) =>
                     menu_driver_selection_ptr = 0
       /\ (lastOp = "decrement" /\ prevPtr >= lastArg) =>
              menu_driver_selection_ptr = prevPtr - lastArg

\* C17: over a list that is repopulated to any length N > 0 between the
\* requests, a shorter one included, every increment, decrement, setLast,
\* clear, ascendAlphabet and descendAlphabet request that completes
\* leaves the position below the current N.
C17_PositionBelowSize ==
    (/\ lastOp \in {"increment", "decrement", "set_last", "clear",
                    "ascend_alphabet", "descend_alphabet"}
     /\ ret = "true"
     /\ fault = "none")
    => menu_driver_selection_ptr < menu_list_size

\* C19: MENU_NAVIGATION_CTL_CLEAR_SCROLL_INDICES leaves the table size at
\* 0; and while the size is 0, that is until the next append, every
\* ascendAlphabet and descendAlphabet request returns false, leaves the
\* position unchanged, reads no slot of the array and calls no hook,
\* whatever entries the clear left in the slots.
C19_ClearedTableNoJump ==
    /\ lastOp = "clear_scroll_indices" => scroll_index_size = 0
    /\ (/\ lastOp \in {"ascend_alphabet", "descend_alphabet"}
        /\ scroll_index_size = 0)
       => (/\ ret = "false"
           /\ menu_driver_selection_ptr = prevPtr
           /\ hooks = <<>>
           /\ fault = "none")

C19_Witness ==
    /\ lastOp = "ascend_alphabet"
    /\ scroll_index_size = 0
    /\ scroll_index_list[0] = 1
    /\ scroll_index_list[1] = 2
    /\ menu_driver_selection_ptr = 1
    /\ menu_list_size = MaxN
    /\ menu_driver_ctx # NULL
    /\ ret = "false"

\* C20 as claimed: after every RARCH_MENU_CTL_DEINIT request that returns,
\* the table size and the selection are 0, whatever the state before, the
\* own-driver flag set and the menu handle absent included.
C20_DeinitAlwaysResets ==
    (lastOp = "deinit" /\ ret = "true")
    => (scroll_index_size = 0 /\ menu_driver_selection_ptr = 0)

\* C20: after a RARCH_MENU_CTL_DEINIT request that returns with the
\* own-driver flag clear and a menu handle present, the table size and the
\* selection are 0 (and every slot and the scroll acceleration are 0); with
\* the own-driver flag set, or with no menu handle, the request leaves the
\* selection as it was.
C20_DeinitResetsWithHandle ==
    (lastOp = "deinit" /\ ret = "true") =>
        IF ~menu_driver_data_own /\ prevData # NULL
        THEN /\ scroll_index_size = 0
             /\ menu_driver_selection_ptr = 0
             /\ scroll_acceleration = 0
             /\ \A i \in 0 .. (SCROLL_INDEX_SIZE - 1) : scroll_index_list[i] = 0
             /\ menu_driver_data = NULL
        ELSE menu_driver_selection_ptr = prevPtr

C20_Witness ==
    /\ lastOp = "deinit"
    /\ ret = "true"
    /\ ~menu_driver_data_own
    /\ prevData # NULL
    /\ prevPtr = MaxIdx
    /\ menu_driver_selection_ptr = 0
    /\ scroll_index_size = 0
    /\ hooks = <<"context_destroy", "free", "free(menu_userdata)",
                 "free(menu_driver_data)">>

\* How many times hook h is in the log of the last request
Count(h) == Cardinality({i \in 1 .. Len(hooks) : hooks[i] = h})

\* C21: over every sequence of init, DEINIT, DESTROY and SET/UNSET_OWN_DRIVER
\* requests, no request releases the userdata twice or releases a NULL
\* userdata, and a request that leaves menu_userdata NULL where it held
\* the handle of an initialised menu has released that handle.
C21_UserdataReleasedOnce ==
    /\ Count("free(menu_userdata)") <= 1
    /\ Count("free(menu_userdata)") = 1 => prevUserdata # NULL
    /\ (prevUserdata # NULL /\ prevData # NULL /\ menu_userdata = NULL)
           => Count("free(menu_userdata)") = 1

\* C22: no request reads through menu_driver_ctx while it is NULL, and a
\* request of the dispatch facade issued with no driver bound does not
\* return true.
C22_NoNullDriverDeref ==
    /\ fault # "null_deref"
    /\ (/\ menu_driver_ctx = NULL
        /\ lastOp \in {"clear", "set_last", "decrement", "navigation_set",
                       "environment", "populate_entries", "push_list",
                       "list_clear"})
       => ret # "true"

\* C23: RARCH_MENU_CTL_FIND_DRIVER binds the entry of the driver table at
\* the index the name lookup returned when that index is >= 0, and the
\* first entry of the table when the lookup found no driver (index < 0);
\* after a FIND_DRIVER that returned true a driver is bound.
C23_FindDriverBinds ==
    lastOp = "find_driver" =>
        /\ lastArg >= 0 => menu_driver_ctx = menu_ctx_drivers[lastArg + 1]
        /\ lastArg < 0 => menu_driver_ctx = menu_ctx_drivers[1]
        /\ ret = "true" => menu_driver_ctx # NULL

C23_Witness ==
    /\ lastOp = "find_driver"
    /\ lastArg = -1
    /\ menu_driver_ctx = menu_ctx_drivers[1]
    /\ menu_driver_ctx # NULL
    /\ ret = "true"

\* C24: on a MENU_NAVIGATION_CTL_CLEAR request whose argument points to a
\* bool, a driver with a navigation_clear hook receives that bool: false
\* when the caller passed false, true when the caller passed true; and the
\* wraparound branch of increment, which passes false, hands false on.
C24_ClearHookGetsArgument ==
    (menu_driver_ctx # NULL /\ HasHook(menu_driver_ctx, "navigation_clear"))
    => /\ (lastOp = "clear" /\ lastArg = 0) =>
              hooks = <<"navigation_set", "navigation_clear(false)">>
       /\ (lastOp = "clear" /\ lastArg = 1) =>
              hooks = <<"navigation_set", "navigation_clear(true)">>
       /\ lastOp = "increment" =>
              \A i \in 1 .. Len(hooks) : hooks[i] # "navigation_clear(true)"

\* Whether the last request was a menu_driver_iterate call that consumed
\* pending flag i (1 quick-menu push, 2 quit, 3 shutdown): it ran the
\* flag's action
Consumed(i) ==
    /\ lastOp = "iterate"
    /\ CASE i = 1 -> hooks = QuickMenuPush
         [] i = 2 -> ret = "false" /\ hooks \in {<<>>, QuickMenuPush}
         [] OTHER -> hooks = <<"command_event(CMD_EVENT_QUIT)">>

\* A call that ran a flag's action leaves the flag false, so that the next
\* call does not run it again, unless a callee set the flag anew.
ActionAtMostOnce ==
    lastOp = "iterate" =>
        /\ (hooks = QuickMenuPush /\ ~CalleeSets(lastArg, FlagQuickMenu))
               => ~menu_driver_pending_quick_menu
        /\ (prevPending[2] /\ hooks \in {<<>>, QuickMenuPush})
               => ~menu_driver_pending_quit
        /\ (/\ hooks = <<"command_event(CMD_EVENT_QUIT)">>
            /\ ~CalleeSets(lastArg, FlagShutdown))
               => ~menu_driver_pending_shutdown

\* C25 as claimed: a pending flag goes from true to false only inside a
\* menu_driver_iterate call that consumes it, never in another request,
\* RARCH_MENU_CTL_DESTROY and DEINIT included; and each set produces its
\* action in at most one call.
C25_OnlyIterateClears ==
    /\ \A i \in 1 .. 3 : (prevPending[i] /\ ~Pending[i]) => Consumed(i)
    /\ ActionAtMostOnce

\* C25: a pending flag goes from true to false only inside a
\* menu_driver_iterate call that consumes it or in RARCH_MENU_CTL_DESTROY,
\* which resets all three; no other request, DEINIT included, clears a set
\* flag; and each set produces its action in at most one call.
C25_IterateOrDestroyClears ==
    /\ \A i \in 1 .. 3 :
           (prevPending[i] /\ ~Pending[i]) => (lastOp = "destroy" \/ Consumed(i))
    /\ lastOp = "destroy" => Pending = <<FALSE, FALSE, FALSE>>
    /\ ActionAtMostOnce

C25_Witness ==
    /\ lastOp = "deinit"
    /\ prevPending = <<TRUE, TRUE, TRUE>>
    /\ Pending = <<TRUE, TRUE, TRUE>>
    /\ ret = "true"

\* C26: on an increment or decrement request that returns true with a
\* driver bound, the request's own hook (navigation_increment,
\* navigation_decrement), when the driver has it, is invoked exactly once,
\* as the last call of the request, and finds the selection at the value
\* the request leaves it at; a driver without the hook gets no call.
C26_HookAfterMutation ==
    (/\ lastOp \in {"increment", "decrement"}
     /\ ret = "true"
     /\ menu_driver_ctx # NULL)
    => LET h == IF lastOp = "increment" THEN "navigation_increment"
                ELSE "navigation_decrement"
       IN  IF HasHook(menu_driver_ctx, h)
           THEN /\ Count(h) = 1
                /\ hooks[Len(hooks)] = h
                /\ Len(hookSeen) = Len(hooks)
                /\ hookSeen[Len(hookSeen)] = menu_driver_selection_ptr
           ELSE Count(h) = 0

C26_Witness ==
    /\ lastOp = "decrement"
    /\ ret = "true"
    /\ menu_driver_ctx # NULL
    /\ menu_driver_selection_ptr # prevPtr
    /\ hooks = <<"navigation_set", "navigation_decrement">>
    /\ hookSeen = <<menu_driver_selection_ptr, menu_driver_selection_ptr>>

\* C27: from any combination of the three pending flags, two
\* menu_driver_iterate calls in a row during which no flag is set again
\* leave all three flags false; and a call reaches the driver's iterate
\* callback only when all three flags were false at its start.
C27_DrainsInTwoCalls ==
    /\ quietIterates >= 2 => Pending = <<FALSE, FALSE, FALSE>>
    /\ (lastOp = "iterate" /\ hooks = <<"iterate">>)
           => prevPending = <<FALSE, FALSE, FALSE>>

C27_Witness ==
    /\ lastOp = "iterate"
    /\ quietIterates = 2
    /\ prevPending = <<FALSE, FALSE, TRUE>>
    /\ Pending = <<FALSE, FALSE, FALSE>>
    /\ hooks = <<"command_event(CMD_EVENT_QUIT)">>

\* C28: with a driver bound, a navigation request that returns false (an
\* increment or decrement blocked at a boundary, an alphabet jump over an
\* empty table, a descend at position 0, a scroll-index append or a
\* scroll-acceleration get or set with a NULL argument) leaves the
\* selection, the table, its size and the scroll acceleration as they were
\* and invokes no driver hook.
C28_FailedRequestNoEffect ==
    [][(/\ menu_driver_ctx # NULL
        /\ lastOp' \in {"increment", "decrement", "ascend_alphabet",
                        "descend_alphabet", "add_scroll_index",
                        "get_scroll_accel", "set_scroll_accel"}
        /\ ret' = "false")
       => (/\ UNCHANGED <<menu_driver_selection_ptr, scroll_index_list,
                          scroll_index_size, scroll_acceleration>>
           /\ hooks' = <<>>)]_vars

C28_Witness ==
    /\ lastOp = "descend_alphabet"
    /\ ret = "false"
    /\ menu_driver_ctx # NULL
    /\ HasHook(menu_driver_ctx, "navigation_descend_alphabet")
    /\ menu_driver_selection_ptr = 0
    /\ scroll_index_size = MaxTable
    /\ scroll_acceleration = 1

=============================================================================
